---- MODULE Spec2Model ----
(***************************************************************************)
(* IFRS 16 lessee lease calculator (src/app.py): pv_ordinary_annuity and   *)
(* compute_lease, the amortisation schedule they build and the figures     *)
(* derived from it.                                                        *)
(*                                                                         *)
(* Numbers.  The program computes in Python floats (binary64: 53-bit       *)
(* significand, round to nearest, ties to even).  A number is modelled     *)
(* here as a rational <<numerator, denominator>> in lowest terms, and      *)
(* every Python arithmetic operation as the exact rational operation       *)
(* followed by fl, the rounding to a significand of Prec bits (ties to     *)
(* even, no exponent limit: the documented input ranges stay far from      *)
(* overflow and underflow).  Prec is a bound of the model standing for     *)
(* 53; TinyRate is the positive rate that 1 + r absorbs, as 1e-18 does in  *)
(* binary64.  Under InitExact the variable arith is "exact" and fl rounds  *)
(* nothing: that specification (SpecExact) is the algorithm in exact       *)
(* arithmetic, the setting of the statement about total cash paid.         *)
(***************************************************************************)
EXTENDS Integers, Sequences, FiniteSets

VARIABLES lease_term, annual_payment, rate, pay_in_advance, idc, prepaid,
          incentives, useful_life, arith,
          pc, lease_liability_initial, rou_initial, rows, opening, t,
          dep_years, annual_dep

inputs == <<lease_term, annual_payment, rate, pay_in_advance, idc, prepaid,
            incentives, useful_life, arith>>
vars == <<lease_term, annual_payment, rate, pay_in_advance, idc, prepaid,
          incentives, useful_life, arith,
          pc, lease_liability_initial, rou_initial, rows, opening, t,
          dep_years, annual_dep>>

(* Bounds of the model. *)
Prec == 8
MaxTerm == 6
MaxLife == 3

----------------------------------------------------------------------------
(* Rational arithmetic, exact. *)

Abs(i) == IF i < 0 THEN -i ELSE i

RECURSIVE GCD(_, _)
GCD(a, b) == IF b = 0 THEN a ELSE GCD(b, a % b)

Rat(n, d) ==
    LET g == GCD(Abs(n), Abs(d))
        s == IF d < 0 THEN -1 ELSE 1
    IN  <<(s * n) \div g, (s * d) \div g>>

FromInt(i) == <<i, 1>>
Zero == <<0, 1>>
One == <<1, 1>>

Neg(x) == <<-x[1], x[2]>>
AbsR(x) == <<Abs(x[1]), x[2]>>

Add(x, y) ==
    LET g == GCD(x[2], y[2])
    IN  Rat(x[1] * (y[2] \div g) + y[1] * (x[2] \div g), (x[2] \div g) * y[2])

Sub(x, y) == Add(x, Neg(y))

Mul(x, y) ==
    LET g1 == GCD(Abs(x[1]), y[2])
        g2 == GCD(Abs(y[1]), x[2])
    IN  IF x[1] = 0 \/ y[1] = 0 THEN Zero
        ELSE <<(x[1] \div g1) * (y[1] \div g2), (x[2] \div g2) * (y[2] \div g1)>>

Inv(y) == IF y[1] > 0 THEN <<y[2], y[1]>> ELSE <<-y[2], -y[1]>>
Quot(x, y) == Mul(x, Inv(y))

Less(x, y) == Sub(x, y)[1] < 0
Leq(x, y) == Sub(x, y)[1] <= 0

RECURSIVE IPow(_, _)
IPow(b, n) == IF n = 0 THEN 1 ELSE b * IPow(b, n - 1)

Pow2(k) == IPow(2, k)

----------------------------------------------------------------------------
(* Float rounding: the nearest number with a significand of Prec bits,     *)
(* ties to the even significand.                                           *)

RECURSIVE ExcessBits(_)
ExcessBits(i) == IF i < Pow2(Prec) THEN 0 ELSE 1 + ExcessBits(i \div 2)

\* <<m, rem, k>> with m + rem/d = 2^k * (m0 + rem0/d) and m of Prec bits.
RECURSIVE Scale(_, _, _, _)
Scale(m, rem, d, k) ==
    IF m >= Pow2(Prec - 1) THEN <<m, rem, k>>
    ELSE IF rem >= d - rem THEN Scale(2 * m + 1, rem - (d - rem), d, k + 1)
    ELSE Scale(2 * m, rem + rem, d, k + 1)

RoundPos(n, d) ==
    LET ip == n \div d
        rem == n % d
    IN  IF ip >= Pow2(Prec - 1)
        THEN LET k == ExcessBits(ip)
                 m0 == ip \div Pow2(k)
                 low == ip % Pow2(k)
                 up == IF k = 0
                       THEN rem > d - rem \/ (rem = d - rem /\ m0 % 2 = 1)
                       ELSE \/ low > Pow2(k - 1)
                            \/ low = Pow2(k - 1) /\ rem > 0
                            \/ low = Pow2(k - 1) /\ rem = 0 /\ m0 % 2 = 1
             IN  Rat((IF up THEN m0 + 1 ELSE m0) * Pow2(k), 1)
        ELSE LET s == Scale(ip, rem, d, 0)
                 up == \/ s[2] > d - s[2]
                       \/ s[2] = d - s[2] /\ s[1] % 2 = 1
             IN  Rat(IF up THEN s[1] + 1 ELSE s[1], Pow2(s[3]))

Round(x) ==
    IF x[1] = 0 THEN Zero
    ELSE IF x[1] < 0 THEN Neg(RoundPos(-x[1], x[2]))
    ELSE RoundPos(x[1], x[2])

\* The result of one Python float operation whose exact value is x.
fl(x) == IF arith = "exact" THEN x ELSE Round(x)

\* The value standing for a raised ZeroDivisionError.
ZeroDivisionError == <<0, 0>>

\* x / y
TrueDiv(x, y) == IF y = Zero THEN ZeroDivisionError ELSE fl(Quot(x, y))

\* b ** -n, n a non-negative int
PowNeg(b, n) ==
    IF n = 0 THEN One
    ELSE IF b = Zero THEN ZeroDivisionError
    ELSE fl(Inv(<<IPow(b[1], n), IPow(b[2], n)>>))

MinR(x, y) == IF Less(y, x) THEN y ELSE x
MaxR(x, y) == IF Less(x, y) THEN y ELSE x
MinI(a, b) == IF b < a THEN b ELSE a

----------------------------------------------------------------------------
(* Inputs. *)

\* The smallest power of two that 1 + r rounds away.
TinyRate == <<1, Pow2(Prec + 1)>>

Terms == 1 .. MaxTerm
Payments == {Zero, One, FromInt(167)}
Rates == {Zero, TinyRate, <<1, 4>>, One}
ExactRates == {Zero, <<1, 4>>, One}
DirectCosts == {Zero, One}
Prepayments == {Zero, FromInt(2)}
Incentives == {Zero, FromInt(4)}
Lives == 1 .. MaxLife

----------------------------------------------------------------------------
(* The calculation. *)

pv_ordinary_annuity(pmt, r, n) ==
    IF r = Zero THEN fl(Mul(pmt, FromInt(n)))
    ELSE LET v == PowNeg(fl(Add(One, r)), n)
         IN  IF v = ZeroDivisionError THEN ZeroDivisionError
             ELSE TrueDiv(fl(Mul(pmt, fl(Sub(One, v)))), r)

InitialLiabilityWholeTerm(n, pmt, r, advance) ==
    LET a == pv_ordinary_annuity(pmt, r, n)
    IN  IF a = ZeroDivisionError THEN ZeroDivisionError
        ELSE IF advance THEN fl(Add(pmt, a)) ELSE a

InitialLiability(n, pmt, r, advance) ==
    LET a == pv_ordinary_annuity(pmt, r, IF advance THEN n - 1 ELSE n)
    IN  IF a = ZeroDivisionError THEN ZeroDivisionError
        ELSE IF advance THEN fl(Add(pmt, a)) ELSE a

RouInitial(liability, costs, pre, inc) ==
    fl(Sub(fl(Add(fl(Add(liability, costs)), pre)), inc))

Period0RowMax(op, pmt) ==
    LET principal == MaxR(pmt, op)
    IN  [Period |-> 0, Opening |-> op, Interest |-> Zero, Payment |-> pmt,
         Principal |-> principal, Closing |-> fl(Sub(op, principal))]

Period0Row(op, pmt) ==
    LET principal == MinR(pmt, op)
    IN  [Period |-> 0, Opening |-> op, Interest |-> Zero, Payment |-> pmt,
         Principal |-> principal, Closing |-> fl(Sub(op, principal))]

PeriodRowNoBalloon(tt, n, op, pmt, r) ==
    LET interest == fl(Mul(op, r))
        principal == fl(Sub(pmt, interest))
    IN  [Period |-> tt, Opening |-> op, Interest |-> interest, Payment |-> pmt,
         Principal |-> principal, Closing |-> fl(Sub(op, principal))]

PeriodRowPaymentAsPrincipal(tt, n, op, pmt, r) ==
    LET interest == fl(Mul(op, r))
        principal == IF tt = n THEN op ELSE pmt
        payment == IF tt = n THEN fl(Add(interest, principal)) ELSE pmt
    IN  [Period |-> tt, Opening |-> op, Interest |-> interest,
         Payment |-> payment, Principal |-> principal,
         Closing |-> fl(Sub(op, principal))]

PeriodRow(tt, n, op, pmt, r) ==
    LET interest == fl(Mul(op, r))
        principal == IF tt = n THEN op ELSE fl(Sub(pmt, interest))
        payment == IF tt = n THEN fl(Add(interest, principal)) ELSE pmt
    IN  [Period |-> tt, Opening |-> op, Interest |-> interest,
         Payment |-> payment, Principal |-> principal,
         Closing |-> fl(Sub(op, principal))]

\* opening = closing, after each row.
OpeningAfterStale(row) == row.Opening

OpeningAfter(row) == row.Closing

\* The periods of the loop: range(1, n + 1) stops before RangeStop.
RangeStopShort(n) == n

RangeStop(n) == n + 1

DepYearsLeaseTerm(term, life) == term

DepYearsOffByOne(term, life) == MinI(term, life) - 1

DepYears(term, life) == MinI(term, life)

AnnualDep(rou, years) == TrueDiv(rou, FromInt(years))

\* The rows the journal entries are taken from: s[s["Period"] == 1].
IsPeriod1(row) == row.Period = 1
y1 == SelectSeq(rows, IsPeriod1)

----------------------------------------------------------------------------
(* State machine: one call of compute_lease. *)

InitWith(arithmetic, rateSet) ==
    /\ arith = arithmetic
    /\ lease_term \in Terms
    /\ annual_payment \in Payments
    /\ rate \in rateSet
    /\ pay_in_advance \in BOOLEAN
    /\ idc \in DirectCosts
    /\ prepaid \in Prepayments
    /\ incentives \in Incentives
    /\ useful_life \in Lives
    /\ pc = "start"
    /\ lease_liability_initial = Zero
    /\ rou_initial = Zero
    /\ rows = <<>>
    /\ opening = Zero
    /\ t = 1
    /\ dep_years = 0
    /\ annual_dep = Zero

Init == InitWith("float", Rates)

InitExact == InitWith("exact", ExactRates)

\* Lines 48-61: the initial liability, the ROU asset, the empty schedule.
Liability ==
    /\ pc = "start"
    /\ LET pv == InitialLiability(lease_term, annual_payment, rate, pay_in_advance)
       IN  IF pv = ZeroDivisionError
           THEN /\ pc' = "error"
                /\ UNCHANGED <<lease_liability_initial, rou_initial, opening>>
           ELSE /\ lease_liability_initial' = pv
                /\ rou_initial' = RouInitial(pv, idc, prepaid, incentives)
                /\ opening' = pv
                /\ pc' = IF pay_in_advance THEN "period0" ELSE "loop"
    /\ rows' = <<>>
    /\ UNCHANGED <<inputs, t, dep_years, annual_dep>>

\* Lines 63-68: the period-0 row of an Advance schedule.
AdvanceRow ==
    /\ pc = "period0"
    /\ LET row == Period0Row(opening, annual_payment)
       IN  /\ rows' = Append(rows, row)
           /\ opening' = OpeningAfter(row)
    /\ pc' = "loop"
    /\ UNCHANGED <<inputs, lease_liability_initial, rou_initial, t, dep_years,
                   annual_dep>>

\* Lines 70-81: one pass of the loop over the periods.
PeriodStep ==
    /\ pc = "loop"
    /\ t < RangeStop(lease_term)
    /\ LET row == PeriodRow(t, lease_term, opening, annual_payment, rate)
       IN  /\ rows' = Append(rows, row)
           /\ opening' = OpeningAfter(row)
    /\ t' = t + 1
    /\ UNCHANGED <<inputs, pc, lease_liability_initial, rou_initial, dep_years,
                   annual_dep>>

\* Lines 83-93: the depreciation figures and the return.
Depreciation ==
    /\ pc = "loop"
    /\ ~(t < RangeStop(lease_term))
    /\ dep_years' = DepYears(lease_term, useful_life)
    /\ LET dep == AnnualDep(rou_initial, dep_years')
       IN  IF dep = ZeroDivisionError
           THEN pc' = "error" /\ UNCHANGED annual_dep
           ELSE pc' = "done" /\ annual_dep' = dep
    /\ UNCHANGED <<inputs, lease_liability_initial, rou_initial, rows, opening, t>>

Next == Liability \/ AdvanceRow \/ PeriodStep \/ Depreciation

Spec == Init /\ [][Next]_vars

SpecExact == InitExact /\ [][Next]_vars

----------------------------------------------------------------------------
(* Vocabulary of the properties. *)

Done == pc = "done"
LastRow == rows[Len(rows)]
Quarter == <<1, 4>>
BigPayment == FromInt(167)

\* Machine epsilon of the float format: 2^(1 - Prec).
Eps == <<1, Pow2(Prec - 1)>>

\* |a - b| <= 2 * Eps * |scale|
Within(a, b, scale) ==
    Leq(AbsR(Sub(a, b)), Mul(FromInt(2), Mul(Eps, AbsR(scale))))

RECURSIVE SumPrincipal(_)
SumPrincipal(k) ==
    IF k = 0 THEN Zero ELSE Add(SumPrincipal(k - 1), rows[k].Principal)

RECURSIVE FloatSumPrincipal(_)
FloatSumPrincipal(k) ==
    IF k = 0 THEN Zero ELSE fl(Add(FloatSumPrincipal(k - 1), rows[k].Principal))

RECURSIVE SumPayment(_)
SumPayment(k) ==
    IF k = 0 THEN Zero ELSE Add(SumPayment(k - 1), rows[k].Payment)

RECURSIVE MaxAbsOpening(_)
MaxAbsOpening(k) ==
    IF k = 0 THEN Zero ELSE MaxR(MaxAbsOpening(k - 1), AbsR(rows[k].Opening))

NominalTotal == Mul(annual_payment, FromInt(lease_term))

----------------------------------------------------------------------------
(* C1: full amortisation.  When compute_lease returns, the last row of    *)
(* the schedule is the row of period lease_term and its Closing is 0.     *)
C1_FullAmortisation ==
    Done => LastRow.Period = lease_term /\ LastRow.Closing = Zero

\* A finished schedule whose unforced last principal would have left a
\* balance: the forced final row is what brings Closing to 0.
C1_Witness ==
    /\ Done
    /\ lease_term >= 3
    /\ rate = Quarter
    /\ annual_payment = BigPayment
    /\ LastRow.Opening # Zero
    /\ fl(Sub(annual_payment, LastRow.Interest)) # LastRow.Opening

(* C2 as stated: every row of a period >= 1 has Payment = Interest +      *)
(* Principal, Closing = Opening - Principal and Interest = Opening * rate, *)
(* each evaluated as the program evaluates it (in floats).                 *)
C2_RowConsistency ==
    \A i \in 1 .. Len(rows) :
        rows[i].Period >= 1 =>
            /\ rows[i].Payment = fl(Add(rows[i].Interest, rows[i].Principal))
            /\ rows[i].Closing = fl(Sub(rows[i].Opening, rows[i].Principal))
            /\ rows[i].Interest = fl(Mul(rows[i].Opening, rate))

(* C2 amended: every row of a period >= 1 has Closing = Opening -          *)
(* Principal and Interest = Opening * rate; the final row has Payment =    *)
(* Interest + Principal; a row before the final one has Payment = the      *)
(* periodic payment and Principal = Payment - Interest, so that Payment    *)
(* and Interest + Principal differ by at most 2 * Eps * Payment.           *)
C2_RowConsistencyRounded ==
    \A i \in 1 .. Len(rows) :
        rows[i].Period >= 1 =>
            /\ rows[i].Closing = fl(Sub(rows[i].Opening, rows[i].Principal))
            /\ rows[i].Interest = fl(Mul(rows[i].Opening, rate))
            /\ rows[i].Period = lease_term =>
                   rows[i].Payment = fl(Add(rows[i].Interest, rows[i].Principal))
            /\ rows[i].Period < lease_term =>
                   /\ rows[i].Payment = annual_payment
                   /\ rows[i].Principal = fl(Sub(rows[i].Payment, rows[i].Interest))
                   /\ Within(rows[i].Payment,
                             Add(rows[i].Interest, rows[i].Principal),
                             rows[i].Payment)

\* A finished schedule at an ordinary rate with a row before the last whose
\* Interest + Principal does not give back the Payment.
C2_Witness ==
    /\ Done
    /\ rate = Quarter
    /\ \E i \in 1 .. Len(rows) :
           /\ rows[i].Period >= 1
           /\ rows[i].Period < lease_term
           /\ rows[i].Payment # fl(Add(rows[i].Interest, rows[i].Principal))

(* C3 as stated: with rate = 0 the initial liability is payment * term,    *)
(* for both timings.                                                       *)
C3_ZeroRate ==
    (rate = Zero /\ pc \notin {"start", "error"}) =>
        lease_liability_initial = fl(NominalTotal)

(* C3 amended: with rate = 0 the initial liability is payment * term under *)
(* Arrears; under Advance it is payment + payment * (term - 1) as floats   *)
(* compute it, within 2 * Eps * payment * term of payment * term.          *)
C3_ZeroRateRounded ==
    (rate = Zero /\ pc \notin {"start", "error"}) =>
        IF pay_in_advance
        THEN /\ lease_liability_initial =
                    fl(Add(annual_payment,
                           fl(Mul(annual_payment, FromInt(lease_term - 1)))))
             /\ Within(lease_liability_initial, NominalTotal, NominalTotal)
        ELSE lease_liability_initial = fl(NominalTotal)

\* A zero-rate Advance lease whose liability is not the product.
C3_Witness ==
    /\ Done
    /\ rate = Zero
    /\ pay_in_advance
    /\ lease_liability_initial # fl(NominalTotal)

(* C4: the Advance period-0 row.  The first row of an Advance schedule has *)
(* Period 0, Opening = the initial liability, Interest 0, Principal = the  *)
(* full periodic payment (the clamp never lowers it), Payment = Interest + *)
(* Principal and Closing = initial liability - payment.                    *)
C4_AdvanceRow0 ==
    (pay_in_advance /\ Len(rows) >= 1) =>
        /\ rows[1].Period = 0
        /\ rows[1].Opening = lease_liability_initial
        /\ rows[1].Interest = Zero
        /\ rows[1].Principal = annual_payment
        /\ rows[1].Payment = fl(Add(rows[1].Interest, rows[1].Principal))
        /\ rows[1].Closing = fl(Sub(lease_liability_initial, annual_payment))

\* The single-period, highest-rate case, where the clamp meets the payment.
C4_Witness ==
    /\ pay_in_advance
    /\ Len(rows) >= 1
    /\ lease_term = 1
    /\ rate = One
    /\ annual_payment = BigPayment
    /\ rows[1].Opening = annual_payment

(* C5: the shape of the schedule.  Arrears: lease_term rows, periods 1 ..  *)
(* lease_term in order.  Advance: lease_term + 1 rows, periods 0 ..        *)
(* lease_term in order.  Exactly one row has Period = 1.                   *)
C5_ScheduleShape ==
    Done =>
        /\ Len(rows) = IF pay_in_advance THEN lease_term + 1 ELSE lease_term
        /\ \A i \in 1 .. Len(rows) :
               rows[i].Period = IF pay_in_advance THEN i - 1 ELSE i
        /\ Len(y1) = 1

C5_Witness ==
    /\ Done
    /\ pay_in_advance
    /\ lease_term = MaxTerm
    /\ y1[1] = rows[2]

(* C6 as stated: dep_years = min(term, useful life), annual_dep *          *)
(* dep_years = the initial ROU asset, and the ROU asset = liability +      *)
(* direct costs + prepayments - incentives.                                *)
C6_StraightLine ==
    Done =>
        /\ dep_years = MinI(lease_term, useful_life)
        /\ fl(Mul(annual_dep, FromInt(dep_years))) = rou_initial
        /\ rou_initial =
               fl(Sub(fl(Add(fl(Add(lease_liability_initial, idc)), prepaid)),
                      incentives))

(* C6 amended: dep_years = min(term, useful life), the ROU asset =         *)
(* liability + direct costs + prepayments - incentives, and annual_dep *   *)
(* dep_years is within 2 * Eps * |ROU asset| of the ROU asset.             *)
C6_StraightLineRounded ==
    Done =>
        /\ dep_years = MinI(lease_term, useful_life)
        /\ Within(Mul(annual_dep, FromInt(dep_years)), rou_initial, rou_initial)
        /\ rou_initial =
               fl(Sub(fl(Add(fl(Add(lease_liability_initial, idc)), prepaid)),
                      incentives))

\* A useful life shorter than the term, and a quotient that does not
\* multiply back.
C6_Witness ==
    /\ Done
    /\ useful_life < lease_term
    /\ dep_years = 3
    /\ incentives # Zero
    /\ fl(Mul(annual_dep, FromInt(dep_years))) # rou_initial

(* C7: monotonic opening.  Under Arrears with rate > 0 and payment > 0,    *)
(* Opening strictly decreases from each row to the next and the balance is *)
(* 0 only as the Closing of the final row.                                 *)
C7_MonotonicOpening ==
    (~pay_in_advance /\ Less(Zero, rate) /\ Less(Zero, annual_payment)) =>
        /\ \A i \in 1 .. Len(rows) - 1 :
               Less(rows[i + 1].Opening, rows[i].Opening)
        /\ \A i \in 1 .. Len(rows) :
               /\ rows[i].Opening # Zero
               /\ rows[i].Closing = Zero => rows[i].Period = lease_term

(* C8: totality.  No call reaches an error (no division by zero): every    *)
(* call is at one of its program points, the loop counter stays within     *)
(* 1 .. lease_term + 1 with one row appended per pass, and a call that has *)
(* returned has passed every period and holds a complete result.           *)
C8_Totality ==
    /\ pc \in {"start", "period0", "loop", "done"}
    /\ t \in 1 .. lease_term + 1
    /\ pc = "loop" => Len(rows) = (t - 1) + (IF pay_in_advance THEN 1 ELSE 0)
    /\ Done =>
           /\ t = lease_term + 1
           /\ dep_years >= 1
           /\ Len(rows) >= lease_term
           /\ annual_dep # ZeroDivisionError
           /\ lease_liability_initial # ZeroDivisionError

\* Advance with term 1 and a non-zero rate: pv_ordinary_annuity ran with
\* periods = 0 on its dividing branch, and the call returned.
C8_Witness ==
    /\ Done
    /\ pay_in_advance
    /\ lease_term = 1
    /\ rate = One
    /\ dep_years = 1

(* C9 as stated: the first Opening is the initial liability, every later   *)
(* Opening is the preceding Closing, and the sum of Principal over all     *)
(* rows is the initial liability (summed exactly or in floats).            *)
C9_RollForward ==
    Done =>
        /\ rows[1].Opening = lease_liability_initial
        /\ \A i \in 1 .. Len(rows) - 1 : rows[i + 1].Opening = rows[i].Closing
        /\ \/ SumPrincipal(Len(rows)) = lease_liability_initial
           \/ FloatSumPrincipal(Len(rows)) = lease_liability_initial

(* C9 amended: the first Opening is the initial liability, every later     *)
(* Opening is the preceding Closing, and the sum of Principal over all     *)
(* rows is within (number of rows) * 2 * Eps * (largest |Opening|) of the  *)
(* initial liability.                                                      *)
C9_RollForwardRounded ==
    Done =>
        /\ rows[1].Opening = lease_liability_initial
        /\ \A i \in 1 .. Len(rows) - 1 : rows[i + 1].Opening = rows[i].Closing
        /\ Within(SumPrincipal(Len(rows)), lease_liability_initial,
                  Mul(FromInt(Len(rows)), MaxAbsOpening(Len(rows))))

\* An Advance schedule (the step from period 0 to period 1 included) whose
\* principal does not add up to the liability.
C9_Witness ==
    /\ Done
    /\ pay_in_advance
    /\ lease_term >= 3
    /\ rate = Quarter
    /\ rows[2].Opening = rows[1].Closing
    /\ SumPrincipal(Len(rows)) # lease_liability_initial

(* C10: total cash paid, in exact arithmetic.  The Payment column sums to  *)
(* payment * term; under Arrears the forced final payment is the periodic  *)
(* payment; under Advance period 0 and periods 1 .. term - 1 each pay the  *)
(* periodic payment and the final row pays 0.                              *)
C10_TotalCash ==
    (Done /\ arith = "exact") =>
        /\ SumPayment(Len(rows)) = NominalTotal
        /\ IF pay_in_advance
           THEN /\ \A i \in 1 .. Len(rows) - 1 : rows[i].Payment = annual_payment
                /\ LastRow.Payment = Zero
           ELSE \A i \in 1 .. Len(rows) : rows[i].Payment = annual_payment

C10_Witness ==
    /\ Done
    /\ arith = "exact"
    /\ pay_in_advance
    /\ lease_term >= 3
    /\ rate = Quarter
    /\ annual_payment = BigPayment
    /\ LastRow.Payment = Zero
    /\ Less(Zero, rows[Len(rows) - 1].Interest)

====
